---- MODULE Spec2Model ----
(***************************************************************************)
(* Model of crates/libcontainer/src/seccomp/mod.rs (youki): the            *)
(* translators translate_arch / translate_action / translate_op, the       *)
(* validator check_seccomp, and initialize_seccomp, which drives a         *)
(* libseccomp filter context (ScmpFilterContext) through creation,         *)
(* configuration, rule compilation, load and notify-fd retrieval.          *)
(*                                                                         *)
(* The libseccomp context is external: every call on it may succeed or     *)
(* fail.  A run of initialize_seccomp is one behaviour: Init picks the     *)
(* policy (the LinuxSeccomp argument), each action is one step of the      *)
(* function body, and `?` / bail! end the run with result = "err".         *)
(***************************************************************************)
EXTENDS Integers, Sequences, FiniteSets, TLC

\* ------------------------------------------------------------------ bounds
MaxFlags == 2
MaxArchs == 1
MaxRules == 2
MaxNames == 2
MaxArgs == 2

\* ------------------------------------------------------- program constants
\* libc::EPERM, the errno used when errno_ret is absent.
EPERM == 1
\* Largest value of the native trace-value type (u16) that errno.try_into()
\* must fit.
U16Max == 65535
\* 2^16: a u32 is kept as two 16-bit halves (hi, lo) so that every value of
\* the type, and its `as i32` reinterpretation, stays inside TLC's integers.
Half == 65536
\* 2^15: the hi half from which bit 31 (the i32 sign bit) is set.
SignHalf == 32768

SECCOMP_FILTER_FLAG_LOG == "SECCOMP_FILTER_FLAG_LOG"
SECCOMP_FILTER_FLAG_TSYNC == "SECCOMP_FILTER_FLAG_TSYNC"
SECCOMP_FILTER_FLAG_SPEC_ALLOW == "SECCOMP_FILTER_FLAG_SPEC_ALLOW"

\* ------------------------------------------------------------ option types
\* Option<u32>: errno_ret / default_errno_ret.
NoneU32 == [some |-> FALSE, hi |-> 0, lo |-> 0]
SomeU32(h, l) == [some |-> TRUE, hi |-> h, lo |-> l]
\* Option<u64>: value_two of an argument condition (values stay small here,
\* they are only carried, never computed with).
NoneU64 == [some |-> FALSE, v |-> 0]
SomeU64(x) == [some |-> TRUE, v |-> x]
\* Option<Vec<LinuxSeccompArg>>: args of a rule.
NoArgs == [some |-> FALSE, v |-> <<>>]
SomeArgs(s) == [some |-> TRUE, v |-> s]
\* Option<RawFd>: the value initialize_seccomp returns on success.
NoFd == [some |-> FALSE, v |-> 0]
SomeFd(x) == [some |-> TRUE, v |-> x]

\* ------------------------------------------------------------- vocabulary
\* oci_spec::runtime::Arch, the 17 portable architecture tokens.
Arch ==
  { "ScmpArchNative", "ScmpArchX86", "ScmpArchX86_64", "ScmpArchX32",
    "ScmpArchArm", "ScmpArchAarch64", "ScmpArchMips", "ScmpArchMips64",
    "ScmpArchMips64n32", "ScmpArchMipsel", "ScmpArchMipsel64",
    "ScmpArchMipsel64n32", "ScmpArchPpc", "ScmpArchPpc64", "ScmpArchPpc64le",
    "ScmpArchS390", "ScmpArchS390x" }

\* oci_spec::runtime::LinuxSeccompAction.
LinuxSeccompAction ==
  { "ScmpActKill", "ScmpActTrap", "ScmpActErrno", "ScmpActTrace",
    "ScmpActAllow", "ScmpActKillProcess", "ScmpActNotify", "ScmpActLog" }

\* oci_spec::runtime::LinuxSeccompOperator.
LinuxSeccompOperator ==
  { "ScmpCmpNe", "ScmpCmpLt", "ScmpCmpLe", "ScmpCmpEq", "ScmpCmpGe",
    "ScmpCmpGt", "ScmpCmpMaskedEq" }

\* --------------------------------------------------------- pure functions
\* libseccomp::ScmpArch, the native identifiers translate_arch produces.
ScmpArch ==
  { "Native", "X86", "X8664", "X32", "Arm", "Aarch64", "Mips", "Mips64",
    "Mips64N32", "Mipsel", "Mipsel64", "Mipsel64N32", "Ppc", "Ppc64",
    "Ppc64Le", "S390", "S390X" }

\* Mutant of translate_arch: the x32 arm repeats the x86-64 one.
translate_arch_x32_as_x8664(arch) ==
  CASE arch = "ScmpArchNative" -> "Native"
    [] arch = "ScmpArchX86" -> "X86"
    [] arch \in {"ScmpArchX86_64", "ScmpArchX32"} -> "X8664"
    [] arch = "ScmpArchArm" -> "Arm"
    [] arch = "ScmpArchAarch64" -> "Aarch64"
    [] arch = "ScmpArchMips" -> "Mips"
    [] arch = "ScmpArchMips64" -> "Mips64"
    [] arch = "ScmpArchMips64n32" -> "Mips64N32"
    [] arch = "ScmpArchMipsel" -> "Mipsel"
    [] arch = "ScmpArchMipsel64" -> "Mipsel64"
    [] arch = "ScmpArchMipsel64n32" -> "Mipsel64N32"
    [] arch = "ScmpArchPpc" -> "Ppc"
    [] arch = "ScmpArchPpc64" -> "Ppc64"
    [] arch = "ScmpArchPpc64le" -> "Ppc64Le"
    [] arch = "ScmpArchS390" -> "S390"
    [] arch = "ScmpArchS390x" -> "S390X"

\* fn translate_arch(arch: Arch) -> ScmpArch
translate_arch(arch) ==
  CASE arch = "ScmpArchNative" -> "Native"
    [] arch = "ScmpArchX86" -> "X86"
    [] arch = "ScmpArchX86_64" -> "X8664"
    [] arch = "ScmpArchX32" -> "X32"
    [] arch = "ScmpArchArm" -> "Arm"
    [] arch = "ScmpArchAarch64" -> "Aarch64"
    [] arch = "ScmpArchMips" -> "Mips"
    [] arch = "ScmpArchMips64" -> "Mips64"
    [] arch = "ScmpArchMips64n32" -> "Mips64N32"
    [] arch = "ScmpArchMipsel" -> "Mipsel"
    [] arch = "ScmpArchMipsel64" -> "Mipsel64"
    [] arch = "ScmpArchMipsel64n32" -> "Mipsel64N32"
    [] arch = "ScmpArchPpc" -> "Ppc"
    [] arch = "ScmpArchPpc64" -> "Ppc64"
    [] arch = "ScmpArchPpc64le" -> "Ppc64Le"
    [] arch = "ScmpArchS390" -> "S390"
    [] arch = "ScmpArchS390x" -> "S390X"

\* `e as i32` for e: u32 given by its halves: the two's-complement
\* reinterpretation (values with bit 31 set become negative).
AsI32(hi, lo) ==
  IF hi >= SignHalf THEN (hi - Half) * Half + lo ELSE hi * Half + lo

\* errno.map(|e| e as i32).unwrap_or(libc::EPERM)
ErrnoOrEperm(errno) ==
  IF errno.some THEN AsI32(errno.hi, errno.lo) ELSE EPERM

\* A native ScmpAction: <<tag, parameter>>, parameter 0 for the variants
\* that carry none.
ScmpAction(tag, val) == <<tag, val>>

\* Result<ScmpAction>: ok = FALSE is the Err of errno.try_into()?.
\* fn translate_action(action, errno: Option<u32>) -> Result<ScmpAction>
translate_action(action, errno) ==
  LET e == ErrnoOrEperm(errno) IN
  CASE action = "ScmpActKill" -> [ok |-> TRUE, v |-> ScmpAction("KillThread", 0)]
    [] action = "ScmpActTrap" -> [ok |-> TRUE, v |-> ScmpAction("Trap", 0)]
    [] action = "ScmpActErrno" -> [ok |-> TRUE, v |-> ScmpAction("Errno", e)]
    [] action = "ScmpActTrace" ->
         IF e >= 0 /\ e <= U16Max
         THEN [ok |-> TRUE, v |-> ScmpAction("Trace", e)]
         ELSE [ok |-> FALSE, v |-> ScmpAction("Trace", 0)]
    [] action = "ScmpActAllow" -> [ok |-> TRUE, v |-> ScmpAction("Allow", 0)]
    [] action = "ScmpActKillProcess" -> [ok |-> TRUE, v |-> ScmpAction("KillProcess", 0)]
    [] action = "ScmpActNotify" -> [ok |-> TRUE, v |-> ScmpAction("Notify", 0)]
    [] action = "ScmpActLog" -> [ok |-> TRUE, v |-> ScmpAction("Log", 0)]

\* Mutant of translate_op: the masked comparator always gets mask 0.
translate_op_mask_dropped(op, datum_b) ==
  CASE op = "ScmpCmpNe" -> <<"NotEqual", 0>>
    [] op = "ScmpCmpLt" -> <<"Less", 0>>
    [] op = "ScmpCmpLe" -> <<"LessOrEqual", 0>>
    [] op = "ScmpCmpEq" -> <<"Equal", 0>>
    [] op = "ScmpCmpGe" -> <<"GreaterEqual", 0>>
    [] op = "ScmpCmpGt" -> <<"Greater", 0>>
    [] op = "ScmpCmpMaskedEq" -> <<"MaskedEqual", 0>>

\* A native ScmpCompareOp: <<tag, mask>>, mask 0 for all but MaskedEqual.
\* fn translate_op(op, datum_b: Option<u64>) -> ScmpCompareOp
translate_op(op, datum_b) ==
  CASE op = "ScmpCmpNe" -> <<"NotEqual", 0>>
    [] op = "ScmpCmpLt" -> <<"Less", 0>>
    [] op = "ScmpCmpLe" -> <<"LessOrEqual", 0>>
    [] op = "ScmpCmpEq" -> <<"Equal", 0>>
    [] op = "ScmpCmpGe" -> <<"GreaterEqual", 0>>
    [] op = "ScmpCmpGt" -> <<"Greater", 0>>
    [] op = "ScmpCmpMaskedEq" ->
         <<"MaskedEqual", IF datum_b.some THEN datum_b.v ELSE 0>>

\* ScmpArgCompare::new(arg.index() as u32, translate_op(..), arg.value())
ArgCompare(arg) ==
  [arg |-> arg.index, op |-> translate_op(arg.op, arg.value_two),
   datum |-> arg.value]

\* ---------------------------------------------------------------- inputs
SeqsUpTo(S, n) == UNION { [1..k -> S] : k \in 0..n }
NonEmptySeqsUpTo(S, n) == UNION { [1..k -> S] : k \in 1..n }

\* Syscall names used in policies; the kernel's syscall table knows the
\* first two, "nosys" stands for a name the running kernel does not have.
SyscallNames == {"write", "getcwd", "nosys"}
KnownSyscalls == {"write", "getcwd"}

\* ScmpSyscall::from_name(name): Ok for a name of the table, Err otherwise.
from_name(name) == [ok |-> name \in KnownSyscalls, v |-> name]

\* Flag tokens: the three recognized ones and one that is not.
FlagTokens ==
  { SECCOMP_FILTER_FLAG_LOG, SECCOMP_FILTER_FLAG_TSYNC,
    SECCOMP_FILTER_FLAG_SPEC_ALLOW, "SECCOMP_FILTER_FLAG_BOGUS" }

ArchChoices == {"ScmpArchNative", "ScmpArchX86_64"}

\* <<action, errno>> pairs for the default action.
DefaultChoices ==
  { <<"ScmpActAllow", NoneU32>>, <<"ScmpActErrno", NoneU32>>,
    <<"ScmpActErrno", SomeU32(0, 11)>>, <<"ScmpActNotify", NoneU32>>,
    <<"ScmpActTrace", SomeU32(1, 0)>>, <<"ScmpActTrace", SomeU32(0, 7)>>,
    <<"ScmpActKill", SomeU32(0, 5)>> }

\* <<action, errno_ret>> pairs for a rule: allow, kill and notify, and
\* errno / trace with the parameter absent, small, EPERM itself, 2^16, 2^31.
RuleActionChoices ==
  { <<"ScmpActAllow", NoneU32>>, <<"ScmpActAllow", SomeU32(0, 5)>>,
    <<"ScmpActErrno", NoneU32>>, <<"ScmpActErrno", SomeU32(0, 1)>>,
    <<"ScmpActErrno", SomeU32(0, 11)>>, <<"ScmpActErrno", SomeU32(SignHalf, 0)>>,
    <<"ScmpActNotify", NoneU32>>, <<"ScmpActTrace", SomeU32(0, 7)>>,
    <<"ScmpActTrace", SomeU32(1, 0)>>, <<"ScmpActTrace", NoneU32>>,
    <<"ScmpActKill", NoneU32>> }

SmallActionChoices ==
  { <<"ScmpActAllow", NoneU32>>, <<"ScmpActErrno", NoneU32>>,
    <<"ScmpActErrno", SomeU32(0, 11)>>, <<"ScmpActNotify", NoneU32>> }

\* LinuxSeccompArg values.
Arg1 == [index |-> 0, op |-> "ScmpCmpEq", value |-> 1, value_two |-> NoneU64]
Arg2 == [index |-> 1, op |-> "ScmpCmpMaskedEq", value |-> 2, value_two |-> SomeU64(3)]
ArgChoices == {Arg1, Arg2}

\* A LinuxSyscall.
Syscall(names, act, args) ==
  [names |-> names, action |-> act[1], errno_ret |-> act[2], args |-> args]

\* A LinuxSeccomp.  An absent flags / architectures / syscalls list is the
\* empty sequence: the code's `if let Some(..)` and iter().flatten() treat
\* None exactly as an empty list.
Seccomp(def, flags, archs, syscalls) ==
  [default_action |-> def[1], default_errno_ret |-> def[2], flags |-> flags,
   architectures |-> archs, syscalls |-> syscalls]

\* Rules of the single-rule policies: every name list and action over a
\* few argument lists, and every argument list over a few name lists.
RuleChoices ==
  { Syscall(n, a, g) : n \in NonEmptySeqsUpTo(SyscallNames, MaxNames),
                       a \in RuleActionChoices,
                       g \in {NoArgs, SomeArgs(<<>>), SomeArgs(<<Arg1>>)} }
  \cup { Syscall(n, a, SomeArgs(g)) : n \in {<<"getcwd">>, <<"nosys", "getcwd">>},
                                      a \in RuleActionChoices,
                                      g \in SeqsUpTo(ArgChoices, MaxArgs) }

\* Rules of the multi-rule policies: one name, a few actions.
SmallRuleChoices ==
  { Syscall(<<n>>, a, NoArgs) : n \in SyscallNames, a \in SmallActionChoices }
  \cup { Syscall(<<"getcwd">>, a, SomeArgs(<<Arg1>>)) :
           a \in { <<"ScmpActAllow", NoneU32>>, <<"ScmpActErrno", SomeU32(0, 11)>> } }
  \cup { Syscall(<<"getcwd", "write">>, <<"ScmpActNotify", NoneU32>>, NoArgs) }

\* Rule lists of the policies that vary flags and architectures.
ShapeRuleLists ==
  { <<>>,
    << Syscall(<<"getcwd">>, <<"ScmpActNotify", NoneU32>>, NoArgs) >>,
    << Syscall(<<"getcwd", "write">>, <<"ScmpActNotify", NoneU32>>, NoArgs) >>,
    << Syscall(<<"getcwd">>, <<"ScmpActErrno", SomeU32(0, 11)>>, SomeArgs(<<Arg1>>)) >> }

\* The policies explored: all flag and architecture lists over a few rule
\* lists, all lists of small rules, and every single rule.
Policies ==
  { Seccomp(d, f, a, s) : d \in DefaultChoices, f \in SeqsUpTo(FlagTokens, MaxFlags),
                          a \in SeqsUpTo(ArchChoices, MaxArchs), s \in ShapeRuleLists }
  \cup { Seccomp(d, <<>>, <<"ScmpArchNative">>, s) :
           d \in DefaultChoices, s \in SeqsUpTo(SmallRuleChoices, MaxRules) }
  \cup { Seccomp(d, <<>>, <<"ScmpArchNative">>, <<r>>) :
           d \in DefaultChoices, r \in RuleChoices }

\* File descriptors the engine may hand out.
FdChoices == {3, 4}

\* ------------------------------------------------------------- validator
\* Mutant of check_seccomp: the default-action check is missing.
check_seccomp_no_default(seccomp) ==
  IF \E i \in DOMAIN seccomp.syscalls :
       /\ seccomp.syscalls[i].action = "ScmpActNotify"
       /\ \E j \in DOMAIN seccomp.syscalls[i].names :
            seccomp.syscalls[i].names[j] = "write"
  THEN "notify_write"
  ELSE "ok"

\* Mutant of check_seccomp: only the first name of a notify rule is looked at.
check_seccomp_first_name(seccomp) ==
  IF seccomp.default_action = "ScmpActNotify"
  THEN "notify_default"
  ELSE IF \E i \in DOMAIN seccomp.syscalls :
            /\ seccomp.syscalls[i].action = "ScmpActNotify"
            /\ seccomp.syscalls[i].names[1] = "write"
       THEN "notify_write"
       ELSE "ok"

\* Mutant of check_seccomp: a rule over write is rejected whatever its action.
check_seccomp_any_action(seccomp) ==
  IF seccomp.default_action = "ScmpActNotify"
  THEN "notify_default"
  ELSE IF \E i \in DOMAIN seccomp.syscalls :
            \E j \in DOMAIN seccomp.syscalls[i].names :
              seccomp.syscalls[i].names[j] = "write"
       THEN "notify_write"
       ELSE "ok"

\* Mutant of check_seccomp: the loop over the rules is missing.
check_seccomp_default_only(seccomp) ==
  IF seccomp.default_action = "ScmpActNotify" THEN "notify_default" ELSE "ok"

\* fn check_seccomp(seccomp) -> Result<()>: "ok", or which bail! was hit.
check_seccomp(seccomp) ==
  IF seccomp.default_action = "ScmpActNotify"
  THEN "notify_default"
  ELSE IF \E i \in DOMAIN seccomp.syscalls :
            /\ seccomp.syscalls[i].action = "ScmpActNotify"
            /\ \E j \in DOMAIN seccomp.syscalls[i].names :
                 seccomp.syscalls[i].names[j] = "write"
       THEN "notify_write"
       ELSE "ok"

\* Mutant of is_notify: only the first rule is looked at.
is_notify_first_rule(seccomp) ==
  /\ Len(seccomp.syscalls) >= 1
  /\ seccomp.syscalls[1].action = "ScmpActNotify"

\* pub fn is_notify(seccomp) -> bool
is_notify(seccomp) ==
  \E i \in DOMAIN seccomp.syscalls : seccomp.syscalls[i].action = "ScmpActNotify"

\* Mutant of FlagSetter: the catch-all arm falls into the logging arm.
FlagSetter_catch_all_log(flag) ==
  CASE flag = SECCOMP_FILTER_FLAG_TSYNC -> "set_ctl_tsync"
    [] flag = SECCOMP_FILTER_FLAG_SPEC_ALLOW -> "set_ctl_ssb"
    [] OTHER -> "set_ctl_log"

\* The flag match of initialize_seccomp: which setter a token selects.
FlagSetter(flag) ==
  CASE flag = SECCOMP_FILTER_FLAG_LOG -> "set_ctl_log"
    [] flag = SECCOMP_FILTER_FLAG_TSYNC -> "set_ctl_tsync"
    [] flag = SECCOMP_FILTER_FLAG_SPEC_ALLOW -> "set_ctl_ssb"
    [] OTHER -> "unsupported"

\* ----------------------------------------------------------------- state
VARIABLES
  policy,          \* seccomp: &LinuxSeccomp, the argument
  pc,              \* position in the body of initialize_seccomp
  default_action,  \* the local of line 118
  ctx,             \* the ScmpFilterContext
  fi, ai, ri, ni, ci,  \* positions of the loops over flags, architectures,
                       \* syscalls, names and args
  calls,           \* the library calls made so far, in order
  result,          \* "running", "ok" or "err"
  error,           \* the step that failed ("" when none)
  fd,              \* the Option<RawFd> returned
  tin, tout        \* inputs and outputs of a translator applied on its own

vars ==
  <<policy, pc, default_action, ctx, fi, ai, ri, ni, ci, calls, result, error,
    fd, tin, tout>>

\* ScmpFilterContext before new_filter: nothing exists yet.
NoCtx ==
  [created |-> FALSE, default |-> ScmpAction("Allow", 0), log |-> FALSE,
   tsync |-> FALSE, ssb |-> FALSE, nnp |-> TRUE, archs |-> <<>>,
   rules |-> <<>>, loaded |-> FALSE]

\* ScmpFilterContext::new_filter(default): the engine's defaults, among them
\* automatic no-new-privileges on.
NewCtx(def) == [NoCtx EXCEPT !.created = TRUE, !.default = def]

Init ==
  /\ policy \in Policies
  /\ pc = "check"
  /\ default_action = ScmpAction("Allow", 0)
  /\ ctx = NoCtx
  /\ fi = 1 /\ ai = 1 /\ ri = 1 /\ ni = 1 /\ ci = 1
  /\ calls = <<>>
  /\ result = "running"
  /\ error = ""
  /\ fd = NoFd
  /\ tin = <<>>
  /\ tout = <<>>

\* Fail with the error recorded but the call going on.
Fail_continues(why) ==
  /\ result' = "err"
  /\ error' = why
  /\ UNCHANGED pc

\* `?` or bail!: the function returns Err from step `why`.
Fail(why) ==
  /\ pc' = "done"
  /\ result' = "err"
  /\ error' = why

Goto(p) ==
  /\ pc' = p
  /\ UNCHANGED <<result, error>>

Call(op) == calls' = Append(calls, op)

\* line 116: check_seccomp(seccomp)?
CheckSeccomp ==
  /\ pc = "check"
  /\ IF check_seccomp(policy) = "ok" THEN Goto("new_filter") ELSE Fail(check_seccomp(policy))
  /\ UNCHANGED <<tin, tout, policy, default_action, ctx, fi, ai, ri, ni, ci, calls, fd>>

\* lines 118-122: translate the default action (twice), create the filter.
NewFilter ==
  /\ pc = "new_filter"
  /\ LET t == translate_action(policy.default_action, policy.default_errno_ret) IN
     IF ~t.ok
     THEN /\ Fail("translate_action")
          /\ UNCHANGED <<default_action, ctx, calls>>
     ELSE /\ default_action' = t.v
          /\ Call("new_filter")
          /\ \/ /\ ctx' = NewCtx(t.v)
                /\ Goto("flags")
             \/ /\ Fail("new_filter")
                /\ UNCHANGED ctx
  /\ UNCHANGED <<tin, tout, policy, fi, ai, ri, ni, ci, fd>>

\* One setter call of the flag loop, lines 125-132.
SetCtl(op, field) ==
  /\ pc = "flags"
  /\ fi <= Len(policy.flags)
  /\ FlagSetter(policy.flags[fi]) = op
  /\ Call(op)
  /\ \/ /\ ctx' = [ctx EXCEPT ![field] = TRUE]
        /\ fi' = fi + 1
        /\ Goto("flags")
     \/ /\ Fail(op)
        /\ UNCHANGED <<ctx, fi>>
  /\ UNCHANGED <<tin, tout, policy, default_action, ai, ri, ni, ci, fd>>

SetCtlLog == SetCtl("set_ctl_log", "log")
\* Mutant of SetCtlTsync: the TSYNC arm sets the logging attribute.
SetCtlTsync_sets_log == SetCtl("set_ctl_tsync", "log")

SetCtlTsync == SetCtl("set_ctl_tsync", "tsync")
SetCtlSsb == SetCtl("set_ctl_ssb", "ssb")

\* line 130: f => bail!("seccomp flag {} is not supported", f)
UnsupportedFlag ==
  /\ pc = "flags"
  /\ fi <= Len(policy.flags)
  /\ FlagSetter(policy.flags[fi]) = "unsupported"
  /\ Fail("unsupported_flag")
  /\ UNCHANGED <<tin, tout, policy, default_action, ctx, fi, ai, ri, ni, ci, calls, fd>>

FlagsDone ==
  /\ pc = "flags"
  /\ fi > Len(policy.flags)
  /\ Goto("archs")
  /\ UNCHANGED <<tin, tout, policy, default_action, ctx, fi, ai, ri, ni, ci, calls, fd>>

\* lines 136-139: ctx.add_arch(translate_arch(arch))?
AddArch ==
  /\ pc = "archs"
  /\ ai <= Len(policy.architectures)
  /\ Call("add_arch")
  /\ \/ /\ ctx' = [ctx EXCEPT !.archs = Append(@, translate_arch(policy.architectures[ai]))]
        /\ ai' = ai + 1
        /\ Goto("archs")
     \/ /\ Fail("add_arch")
        /\ UNCHANGED <<ctx, ai>>
  /\ UNCHANGED <<tin, tout, policy, default_action, fi, ri, ni, ci, fd>>

\* Mutant of ArchsDone: the set_ctl_nnp(false) call is left out.
ArchsDone_skips_nnp ==
  /\ pc = "archs"
  /\ ai > Len(policy.architectures)
  /\ Goto("rules")
  /\ UNCHANGED <<tin, tout, policy, default_action, ctx, fi, ai, ri, ni, ci, calls, fd>>

ArchsDone ==
  /\ pc = "archs"
  /\ ai > Len(policy.architectures)
  /\ Goto("nnp")
  /\ UNCHANGED <<tin, tout, policy, default_action, ctx, fi, ai, ri, ni, ci, calls, fd>>

\* line 149: ctx.set_ctl_nnp(false)?
SetCtlNnp ==
  /\ pc = "nnp"
  /\ Call("set_ctl_nnp")
  /\ \/ /\ ctx' = [ctx EXCEPT !.nnp = FALSE]
        /\ Goto("rules")
     \/ /\ Fail("set_ctl_nnp")
        /\ UNCHANGED ctx
  /\ UNCHANGED <<tin, tout, policy, default_action, fi, ai, ri, ni, ci, fd>>

\* The rule the syscall loop is at, and its translated action (the local
\* `action` of line 153).
CurRule == policy.syscalls[ri]
CurAction == translate_action(CurRule.action, CurRule.errno_ret)

\* Mutant of Redundant: the comparison with the default action is missing.
Redundant_never(action, default) == FALSE

\* Mutant of Redundant: only the variants are compared, not their parameters.
Redundant_tag_only(action, default) == action[1] = default[1]

\* line 154: action == default_action
Redundant(action, default) == action = default

\* A native rule as the filter holds it: cmps is empty for add_rule and
\* holds the one comparison of an add_rule_conditional.
NativeRule(action, sc, cmps) == [action |-> action, sc |-> sc, cmps |-> cmps]

RulesDone ==
  /\ pc = "rules"
  /\ ri > Len(policy.syscalls)
  /\ Goto("load")
  /\ UNCHANGED <<tin, tout, policy, default_action, ctx, fi, ai, ri, ni, ci, calls, fd>>

\* line 153: translate_action(syscall.action(), syscall.errno_ret())? fails.
TranslateRuleFails ==
  /\ pc = "rules"
  /\ ri <= Len(policy.syscalls)
  /\ ~CurAction.ok
  /\ Fail("translate_action")
  /\ UNCHANGED <<tin, tout, policy, default_action, ctx, fi, ai, ri, ni, ci, calls, fd>>

\* lines 154-162: the rule repeats the default action: continue.
SkipRedundantRule ==
  /\ pc = "rules"
  /\ ri <= Len(policy.syscalls)
  /\ CurAction.ok
  /\ Redundant(CurAction.v, default_action)
  /\ ri' = ri + 1
  /\ Goto("rules")
  /\ UNCHANGED <<tin, tout, policy, default_action, ctx, fi, ai, ni, ci, calls, fd>>

\* line 164: enter the loop over the rule's names.
EnterRule ==
  /\ pc = "rules"
  /\ ri <= Len(policy.syscalls)
  /\ CurAction.ok
  /\ ~Redundant(CurAction.v, default_action)
  /\ ni' = 1
  /\ Goto("names")
  /\ UNCHANGED <<tin, tout, policy, default_action, ctx, fi, ai, ri, ci, calls, fd>>

NamesDone ==
  /\ pc = "names"
  /\ ni > Len(CurRule.names)
  /\ ri' = ri + 1
  /\ Goto("rules")
  /\ UNCHANGED <<tin, tout, policy, default_action, ctx, fi, ai, ni, ci, calls, fd>>

\* Mutant of SkipUnresolved: the resolver's error is returned with `?`.
SkipUnresolved_propagated ==
  /\ pc = "names"
  /\ ni <= Len(CurRule.names)
  /\ ~from_name(CurRule.names[ni]).ok
  /\ Call("from_name")
  /\ Fail("from_name")
  /\ UNCHANGED <<tin, tout, policy, default_action, ctx, fi, ai, ri, ni, ci, fd>>

\* lines 165-176: the name does not resolve: warn and continue.
SkipUnresolved ==
  /\ pc = "names"
  /\ ni <= Len(CurRule.names)
  /\ ~from_name(CurRule.names[ni]).ok
  /\ Call("from_name")
  /\ ni' = ni + 1
  /\ Goto("names")
  /\ UNCHANGED <<tin, tout, policy, default_action, ctx, fi, ai, ri, ci, fd>>

\* lines 197-201: args is None: ctx.add_rule(action, sc)?
AddRule ==
  /\ pc = "names"
  /\ ni <= Len(CurRule.names)
  /\ from_name(CurRule.names[ni]).ok
  /\ ~CurRule.args.some
  /\ calls' = calls \o <<"from_name", "add_rule">>
  /\ \/ /\ ctx' = [ctx EXCEPT !.rules =
                     Append(@, NativeRule(CurAction.v, from_name(CurRule.names[ni]).v, <<>>))]
        /\ ni' = ni + 1
        /\ Goto("names")
     \/ /\ Fail("add_rule")
        /\ UNCHANGED <<ctx, ni>>
  /\ UNCHANGED <<tin, tout, policy, default_action, fi, ai, ri, ci, fd>>

\* lines 181-182: args is Some: enter the loop over the conditions.
EnterArgs ==
  /\ pc = "names"
  /\ ni <= Len(CurRule.names)
  /\ from_name(CurRule.names[ni]).ok
  /\ CurRule.args.some
  /\ Call("from_name")
  /\ ci' = 1
  /\ Goto("args")
  /\ UNCHANGED <<tin, tout, policy, default_action, ctx, fi, ai, ri, ni, fd>>

\* lines 183-194: ctx.add_rule_conditional(action, sc, &[cmp])?
AddRuleConditional ==
  /\ pc = "args"
  /\ ci <= Len(CurRule.args.v)
  /\ Call("add_rule_conditional")
  /\ \/ /\ ctx' = [ctx EXCEPT !.rules =
                     Append(@, NativeRule(CurAction.v, from_name(CurRule.names[ni]).v,
                                          <<ArgCompare(CurRule.args.v[ci])>>))]
        /\ ci' = ci + 1
        /\ Goto("args")
     \/ /\ Fail("add_rule_conditional")
        /\ UNCHANGED <<ctx, ci>>
  /\ UNCHANGED <<tin, tout, policy, default_action, fi, ai, ri, ni, fd>>

ArgsDone ==
  /\ pc = "args"
  /\ ci > Len(CurRule.args.v)
  /\ ni' = ni + 1
  /\ Goto("names")
  /\ UNCHANGED <<tin, tout, policy, default_action, ctx, fi, ai, ri, ci, calls, fd>>

\* Mutant of Load: the result of ctx.load() is dropped instead of returned.
Load_result_dropped ==
  /\ pc = "load"
  /\ Call("load")
  /\ \/ ctx' = [ctx EXCEPT !.loaded = TRUE]
     \/ UNCHANGED ctx
  /\ Goto("notify")
  /\ UNCHANGED <<tin, tout, policy, default_action, fi, ai, ri, ni, ci, fd>>

\* line 211: ctx.load()?
Load ==
  /\ pc = "load"
  /\ Call("load")
  /\ \/ /\ ctx' = [ctx EXCEPT !.loaded = TRUE]
        /\ Goto("notify")
     \/ /\ Fail("load")
        /\ UNCHANGED ctx
  /\ UNCHANGED <<tin, tout, policy, default_action, fi, ai, ri, ni, ci, fd>>

\* lines 213-217: is_notify(seccomp): Some(ctx.get_notify_fd()?)
GetNotifyFd ==
  /\ pc = "notify"
  /\ is_notify(policy)
  /\ Call("get_notify_fd")
  /\ \/ /\ \E h \in FdChoices : fd' = SomeFd(h)
        /\ pc' = "done"
        /\ result' = "ok"
        /\ UNCHANGED error
     \/ /\ Fail("get_notify_fd")
        /\ UNCHANGED fd
  /\ UNCHANGED <<tin, tout, policy, default_action, ctx, fi, ai, ri, ni, ci>>

\* lines 218-222: no notify rule: Ok(None)
ReturnNone ==
  /\ pc = "notify"
  /\ ~is_notify(policy)
  /\ fd' = NoFd
  /\ pc' = "done"
  /\ result' = "ok"
  /\ UNCHANGED <<tin, tout, policy, default_action, ctx, fi, ai, ri, ni, ci, calls, error>>

Next ==
  \/ CheckSeccomp
  \/ NewFilter
  \/ SetCtlLog
  \/ SetCtlTsync
  \/ SetCtlSsb
  \/ UnsupportedFlag
  \/ FlagsDone
  \/ AddArch
  \/ ArchsDone
  \/ SetCtlNnp
  \/ RulesDone
  \/ TranslateRuleFails
  \/ SkipRedundantRule
  \/ EnterRule
  \/ NamesDone
  \/ SkipUnresolved
  \/ AddRule
  \/ EnterArgs
  \/ AddRuleConditional
  \/ ArgsDone
  \/ Load
  \/ GetNotifyFd
  \/ ReturnNone

Spec == Init /\ [][Next]_vars

TypeOK ==
  /\ pc \in {"check", "new_filter", "flags", "archs", "nnp", "rules", "names",
             "args", "load", "notify", "done"}
  /\ result \in {"running", "ok", "err"}
  /\ (pc = "done") = (result # "running")
  /\ (result = "err") = (error # "")

\* ------------------------------------------------- the filter's decision
\* What a filter answers to a syscall: the action of a rule that matches it,
\* the default action when none does.  Where rules with different actions
\* match, the answer is any of theirs.
RECURSIVE BitAnd(_, _)
BitAnd(a, b) ==
  IF a = 0 \/ b = 0 THEN 0
  ELSE (a % 2) * (b % 2) + 2 * BitAnd(a \div 2, b \div 2)

CmpHolds(cmp, argv) ==
  LET x == argv[cmp.arg] IN
  CASE cmp.op[1] = "NotEqual" -> x # cmp.datum
    [] cmp.op[1] = "Less" -> x < cmp.datum
    [] cmp.op[1] = "LessOrEqual" -> x <= cmp.datum
    [] cmp.op[1] = "Equal" -> x = cmp.datum
    [] cmp.op[1] = "GreaterEqual" -> x >= cmp.datum
    [] cmp.op[1] = "Greater" -> x > cmp.datum
    [] cmp.op[1] = "MaskedEqual" -> BitAnd(x, cmp.op[2]) = cmp.datum

Matches(rule, sc, argv) ==
  /\ rule.sc = sc
  /\ \A k \in DOMAIN rule.cmps : CmpHolds(rule.cmps[k], argv)

Decisions(default, rules, sc, argv) ==
  LET hit == { r.action : r \in { q \in rules : Matches(q, sc, argv) } } IN
  IF hit = {} THEN {default} ELSE hit

\* The syscalls and argument vectors a filter is asked about: the two known
\* syscalls and one no rule names, arguments 0 and 1 over 0..3.
AskedSyscalls == KnownSyscalls \cup {"read"}
ArgVectors == [0..1 -> 0..3]

\* ------------------------------------------- translate_arch on its own
\* Two architecture tokens are drawn and translated.
InitArch ==
  /\ policy = Seccomp(<<"ScmpActAllow", NoneU32>>, <<>>, <<>>, <<>>)
  /\ pc = "translate_arch"
  /\ default_action = ScmpAction("Allow", 0)
  /\ ctx = NoCtx
  /\ fi = 1 /\ ai = 1 /\ ri = 1 /\ ni = 1 /\ ci = 1
  /\ calls = <<>>
  /\ result = "running"
  /\ error = ""
  /\ fd = NoFd
  /\ tin \in Arch \X Arch
  /\ tout = <<>>

TranslateArch ==
  /\ pc = "translate_arch"
  /\ tout' = <<translate_arch(tin[1]), translate_arch(tin[2])>>
  /\ pc' = "translated"
  /\ UNCHANGED <<tin, policy, default_action, ctx, fi, ai, ri, ni, ci, calls,
                 result, error, fd>>

NextArch == TranslateArch

SpecArch == InitArch /\ [][NextArch]_vars

\* ----------------------------------------- translate_action on its own
\* Option<u32> parameters: absent, 0, EPERM, 11, 2^16 - 1, 2^16, 2^31 - 1,
\* 2^31, 2^32 - 1.
U32Choices ==
  { NoneU32, SomeU32(0, 0), SomeU32(0, EPERM), SomeU32(0, 11), SomeU32(0, U16Max),
    SomeU32(1, 0), SomeU32(SignHalf - 1, U16Max), SomeU32(SignHalf, 0),
    SomeU32(U16Max, U16Max) }

\* One action is drawn with two parameters and translated with each.
InitAction ==
  /\ policy = Seccomp(<<"ScmpActAllow", NoneU32>>, <<>>, <<>>, <<>>)
  /\ pc = "translate_action"
  /\ default_action = ScmpAction("Allow", 0)
  /\ ctx = NoCtx
  /\ fi = 1 /\ ai = 1 /\ ri = 1 /\ ni = 1 /\ ci = 1
  /\ calls = <<>>
  /\ result = "running"
  /\ error = ""
  /\ fd = NoFd
  /\ tin \in LinuxSeccompAction \X U32Choices \X U32Choices
  /\ tout = <<>>

TranslateAction ==
  /\ pc = "translate_action"
  /\ tout' = <<translate_action(tin[1], tin[2]), translate_action(tin[1], tin[3])>>
  /\ pc' = "action_translated"
  /\ UNCHANGED <<tin, policy, default_action, ctx, fi, ai, ri, ni, ci, calls,
                 result, error, fd>>

NextAction == TranslateAction

SpecAction == InitAction /\ [][NextAction]_vars

\* --------------------------------------------- translate_op on its own
\* Option<u64> secondary operands: absent, 0 and three masks.
U64Choices == { NoneU64, SomeU64(0), SomeU64(1), SomeU64(3), SomeU64(255) }

\* Two operators are drawn, each with a secondary operand, and translated.
InitOp ==
  /\ policy = Seccomp(<<"ScmpActAllow", NoneU32>>, <<>>, <<>>, <<>>)
  /\ pc = "translate_op"
  /\ default_action = ScmpAction("Allow", 0)
  /\ ctx = NoCtx
  /\ fi = 1 /\ ai = 1 /\ ri = 1 /\ ni = 1 /\ ci = 1
  /\ calls = <<>>
  /\ result = "running"
  /\ error = ""
  /\ fd = NoFd
  /\ tin \in (LinuxSeccompOperator \X U64Choices) \X (LinuxSeccompOperator \X U64Choices)
  /\ tout = <<>>

TranslateOp ==
  /\ pc = "translate_op"
  /\ tout' = <<translate_op(tin[1][1], tin[1][2]), translate_op(tin[2][1], tin[2][2])>>
  /\ pc' = "op_translated"
  /\ UNCHANGED <<tin, policy, default_action, ctx, fi, ai, ri, ni, ci, calls,
                 result, error, fd>>

NextOp == TranslateOp

SpecOp == InitOp /\ [][NextOp]_vars

\* ----------------------------------------------------------------- claims
\* The names of a rule, as a set.
NameSet(rule) == { rule.names[j] : j \in DOMAIN rule.names }

\* The rules of a policy with action notify, and those among them that
\* list `write`.
NotifyRules(p) == { i \in DOMAIN p.syscalls : p.syscalls[i].action = "ScmpActNotify" }
NotifyWriteRules(p) == { i \in NotifyRules(p) : "write" \in NameSet(p.syscalls[i]) }

\* The run has ended with an error and the library was never called: no
\* filter object exists.
RejectedUntouched ==
  /\ calls = <<>>
  /\ ctx = NoCtx
  /\ result # "ok"
  /\ pc \in {"check", "done"}
  /\ pc = "done" => result = "err"

\* C1: a policy whose default action is notify, whatever its flags,
\* architectures and rules, makes initialize_seccomp return an error before
\* any library call: no filter object is ever created.
C1_NotifyDefaultRejected ==
  policy.default_action = "ScmpActNotify" => RejectedUntouched

C1_Witness ==
  /\ policy.default_action = "ScmpActNotify"
  /\ Len(policy.flags) > 0 /\ Len(policy.architectures) > 0 /\ Len(policy.syscalls) > 0
  /\ pc = "done" /\ result = "err" /\ error = "notify_default"

\* C2: a policy with a notify rule whose names contain `write` (anywhere in
\* the names, anywhere in the rule list) makes initialize_seccomp return an
\* error before any library call; the filter is never loaded.
C2_NotifyWriteRejected ==
  NotifyWriteRules(policy) # {} => RejectedUntouched /\ ~ctx.loaded

C2_Witness ==
  /\ policy.default_action = "ScmpActAllow"
  /\ Len(policy.syscalls) = 2
  /\ policy.syscalls[1].action # "ScmpActNotify"
  /\ policy.syscalls[2].action = "ScmpActNotify"
  /\ policy.syscalls[2].names = <<"getcwd", "write">>
  /\ pc = "done" /\ result = "err" /\ error = "notify_write"

\* C3: check_seccomp accepts a policy exactly when its default action is not
\* notify and no notify rule lists `write`: once the validator has run, the
\* call has failed in validation iff one of the two holds.
C3_ValidatorExact ==
  pc # "check" =>
    ( (error \in {"notify_default", "notify_write"})
      <=> (policy.default_action = "ScmpActNotify" \/ NotifyWriteRules(policy) # {}) )

C3_Witness ==
  /\ pc = "new_filter"
  /\ Len(policy.syscalls) = 2
  /\ policy.syscalls[1].action = "ScmpActNotify"
  /\ policy.syscalls[1].names = <<"getcwd">>
  /\ policy.syscalls[2].action = "ScmpActErrno"
  /\ policy.syscalls[2].names = <<"write">>

\* C4: on success the returned handle is present iff some rule has action
\* notify, and without such a rule the engine is never asked for a handle.
C4_HandleIffNotify ==
  /\ result = "ok" => (fd.some <=> NotifyRules(policy) # {})
  /\ NotifyRules(policy) = {} =>
       \A k \in DOMAIN calls : calls[k] # "get_notify_fd"

C4_Witness ==
  /\ result = "ok"
  /\ fd.some
  /\ NotifyRules(policy) = {2}

\* C5 as stated: an error means the filter was not loaded, success means it
\* was.
C5_NoPartialSuccess ==
  /\ result = "err" => ~ctx.loaded
  /\ result = "ok" => ctx.loaded

\* C5 amended: success means the filter is loaded; an error means it is not
\* loaded, except for the failure of get_notify_fd, which comes after a
\* successful load and leaves the filter loaded.
C5_LoadedIffOkOrFdFailure ==
  /\ result = "ok" => ctx.loaded
  /\ result = "err" => (ctx.loaded <=> error = "get_notify_fd")
  /\ result = "running" /\ ctx.loaded => pc = "notify"

C5_Witness ==
  /\ result = "err"
  /\ error = "get_notify_fd"
  /\ ctx.loaded

\* The positions of a flag list that hold an unrecognized token.
UnknownFlags(p) ==
  { k \in DOMAIN p.flags :
      p.flags[k] \notin { "SECCOMP_FILTER_FLAG_LOG", "SECCOMP_FILTER_FLAG_TSYNC",
                          "SECCOMP_FILTER_FLAG_SPEC_ALLOW" } }

\* C9: a flag list with a token other than the three recognized ones makes
\* initialize_seccomp fail, with no architecture registered, no rule added
\* and the filter not loaded at any point of the run.
C9_UnknownFlagFailsEarly ==
  UnknownFlags(policy) # {} =>
    /\ result # "ok"
    /\ pc = "done" => result = "err"
    /\ ctx.archs = <<>> /\ ctx.rules = <<>> /\ ~ctx.loaded
    /\ \A k \in DOMAIN calls :
         calls[k] \notin {"add_arch", "add_rule", "add_rule_conditional", "load"}

C9_Witness ==
  /\ policy.flags = <<"SECCOMP_FILTER_FLAG_LOG", "SECCOMP_FILTER_FLAG_BOGUS">>
  /\ Len(policy.architectures) > 0 /\ Len(policy.syscalls) > 0
  /\ pc = "done" /\ error = "unsupported_flag"

\* C10: translate_arch is total and injective on the 17 architecture tokens:
\* every token yields a native identifier, and two tokens with the same
\* native identifier are the same token.
C10_ArchTotalInjective ==
  pc = "translated" =>
    /\ tout[1] \in ScmpArch /\ tout[2] \in ScmpArch
    /\ tout[1] = tout[2] => tin[1] = tin[2]

C10_Witness ==
  /\ pc = "translated"
  /\ tin = <<"ScmpArchX32", "ScmpArchX86_64">>
  /\ tout = <<"X32", "X8664">>

\* The native rules of a filter, as a set.
RuleSet(rules) == { rules[k] : k \in DOMAIN rules }

\* The rules of a policy whose translated action is the translated default
\* action.
DefaultOf(p) == translate_action(p.default_action, p.default_errno_ret)
ActionOf(rule) == translate_action(rule.action, rule.errno_ret)
SameAsDefault(p) ==
  { i \in DOMAIN p.syscalls :
      /\ DefaultOf(p).ok /\ ActionOf(p.syscalls[i]).ok
      /\ ActionOf(p.syscalls[i]).v = DefaultOf(p).v }

\* The native rules a rule stands for: per resolvable name, one without
\* comparison when args is absent, one per condition otherwise.
Resolvable(rule) == NameSet(rule) \cap KnownSyscalls
NativeOf(rule) ==
  IF rule.args.some
  THEN { [action |-> ActionOf(rule).v, sc |-> n, cmps |-> <<ArgCompare(rule.args.v[c])>>] :
           n \in Resolvable(rule), c \in DOMAIN rule.args.v }
  ELSE { [action |-> ActionOf(rule).v, sc |-> n, cmps |-> <<>>] : n \in Resolvable(rule) }

\* The failures of library calls on the filter context.
EngineFailures ==
  { "new_filter", "set_ctl_log", "set_ctl_tsync", "set_ctl_ssb", "add_arch",
    "set_ctl_nnp", "add_rule", "add_rule_conditional", "load", "get_notify_fd" }

PassesValidation(p) ==
  p.default_action # "ScmpActNotify" /\ NotifyWriteRules(p) = {}

ActionsTranslate(p) ==
  DefaultOf(p).ok /\ \A i \in DOMAIN p.syscalls : ActionOf(p.syscalls[i]).ok

\* Every resolvable name of every rule that is not the default's repeat has
\* its native rules in the filter.
SiblingsCompiled ==
  \A i \in DOMAIN policy.syscalls \ SameAsDefault(policy) :
    NativeOf(policy.syscalls[i]) \subseteq RuleSet(ctx.rules)

ElidedNotCompiled ==
  \A i \in SameAsDefault(policy) : \A k \in DOMAIN ctx.rules :
    ~( /\ ctx.rules[k].action = ActionOf(policy.syscalls[i]).v
       /\ ctx.rules[k].sc \in NameSet(policy.syscalls[i]) )

\* The filter that compiling the elided rules too would give.
WithElidedCompiled ==
  RuleSet(ctx.rules) \cup UNION { NativeOf(policy.syscalls[i]) : i \in SameAsDefault(policy) }

C8_Scenario ==
  /\ policy.default_action = "ScmpActAllow"
  /\ Len(policy.syscalls) = 1
  /\ Len(policy.syscalls[1].names) = 1
  /\ policy.syscalls[1].names[1] \in KnownSyscalls
  /\ policy.syscalls[1].action = "ScmpActErrno"
  /\ policy.syscalls[1].errno_ret.some
  /\ ~policy.syscalls[1].args.some

\* The native i32 e is the error number given by the halves of a u32.
IsErrno(e, u) == e >= 0 /\ e \div Half = u.hi /\ e % Half = u.lo

\* C8 as stated: default allow and the single rule {names: [X], action:
\* errno, errno_ret: E}, X resolvable, no conditions: the loaded filter has
\* default Allow and the one unconditional rule (Errno(E), X), so X is
\* answered with error E and every other syscall is allowed.
C8_SingleErrnoRule ==
  C8_Scenario /\ ctx.loaded =>
    LET X == policy.syscalls[1].names[1]
        E == policy.syscalls[1].errno_ret IN
    /\ ctx.default = ScmpAction("Allow", 0)
    /\ Len(ctx.rules) = 1
    /\ ctx.rules[1].sc = X /\ ctx.rules[1].cmps = <<>>
    /\ ctx.rules[1].action[1] = "Errno" /\ IsErrno(ctx.rules[1].action[2], E)
    /\ \A sc \in AskedSyscalls, argv \in ArgVectors :
         Decisions(ctx.default, RuleSet(ctx.rules), sc, argv)
           = IF sc = X THEN {ctx.rules[1].action} ELSE {ScmpAction("Allow", 0)}

\* The phase a library call belongs to.
Phase(op) ==
  CASE op = "new_filter" -> 1
    [] op \in {"set_ctl_log", "set_ctl_tsync", "set_ctl_ssb"} -> 2
    [] op = "add_arch" -> 3
    [] op = "set_ctl_nnp" -> 4
    [] op \in {"from_name", "add_rule", "add_rule_conditional"} -> 5
    [] op = "load" -> 6
    [] op = "get_notify_fd" -> 7

\* The positions of the calls of a phase, and whether a later phase has
\* begun.
CallsOf(ph) == { k \in DOMAIN calls : Phase(calls[k]) = ph }
Beyond(ph) == \E k \in DOMAIN calls : Phase(calls[k]) > ph

\* C11: the library calls come in the fixed phase order: validation, filter
\* creation with the translated default action, every flag setting, every
\* architecture registration, set_ctl_nnp(false), the rule additions, one
\* load, at most one get_notify_fd.  No phase is revisited, nothing follows
\* load but get_notify_fd, and at load automatic no-new-privileges is off.
C11_PhaseOrder ==
  /\ calls # <<>> => pc # "check" /\ PassesValidation(policy) /\ calls[1] = "new_filter"
  /\ \A k, l \in DOMAIN calls : k < l => Phase(calls[k]) <= Phase(calls[l])
  /\ \A ph \in {1, 4, 6, 7} : Cardinality(CallsOf(ph)) <= 1
  /\ ctx.created => ctx.default = DefaultOf(policy).v
  /\ Beyond(2) => Cardinality(CallsOf(2)) = Len(policy.flags)
  /\ Beyond(3) => Cardinality(CallsOf(3)) = Len(policy.architectures)
  /\ Beyond(4) => CallsOf(4) # {}
  /\ CallsOf(6) # {} => /\ ~ctx.nnp
                        /\ CallsOf(4) # {}
                        /\ ri = Len(policy.syscalls) + 1
  /\ CallsOf(7) # {} => ctx.loaded

C11_Witness ==
  /\ result = "ok"
  /\ calls = << "new_filter", "set_ctl_log", "set_ctl_tsync", "add_arch",
                "set_ctl_nnp", "from_name", "add_rule", "load", "get_notify_fd" >>

\* The additions C12 describes for one resolved name of a rule: one without
\* comparison when the rule has no conditions, else the i-th carries the i-th
\* translated condition.
StatedAdds(rule, sc) ==
  IF ~rule.args.some \/ Len(rule.args.v) = 0
  THEN << [action |-> ActionOf(rule).v, sc |-> sc, cmps |-> <<>>] >>
  ELSE [ c \in 1..Len(rule.args.v) |->
           [action |-> ActionOf(rule).v, sc |-> sc,
            cmps |-> <<ArgCompare(rule.args.v[c])>>] ]

\* The additions for a whole policy, in order: the rules that do not repeat
\* the default action, their names that resolve.
RECURSIVE StatedNames(_, _)
StatedNames(rule, j) ==
  IF j > Len(rule.names) THEN <<>>
  ELSE (IF rule.names[j] \in KnownSyscalls THEN StatedAdds(rule, rule.names[j]) ELSE <<>>)
       \o StatedNames(rule, j + 1)

RECURSIVE StatedRules(_, _)
StatedRules(p, i) ==
  IF i > Len(p.syscalls) THEN <<>>
  ELSE (IF i \in SameAsDefault(p) THEN <<>> ELSE StatedNames(p.syscalls[i], 1))
       \o StatedRules(p, i + 1)

\* C12: for every resolved name of a rule that is not elided there is one
\* addition without comparison when the rule has no argument conditions and
\* N additions when it has N, the i-th carrying the i-th translated condition
\* and the rule's (action, syscall); no addition carries two conditions.
C12_OneAdditionPerCondition ==
  /\ \A k \in DOMAIN ctx.rules : Len(ctx.rules[k].cmps) <= 1
  /\ ctx.loaded => ctx.rules = StatedRules(policy, 1)

\* The steps whose failure is not a failure of an engine call.
OwnFailures == { "notify_default", "notify_write", "translate_action", "unsupported_flag" }

\* C13: the first failure of a fatal step ends the call with an error; the
\* failing engine call is the last engine call made, a failure that is not an
\* engine call's is followed by none, and the engine's load is in the trace of
\* a failed call only when load itself or the later handle request failed.
C13_FailFast ==
  /\ [](result = "err" =>
          /\ pc = "done"
          /\ error \in EngineFailures \cup OwnFailures
          /\ error \in EngineFailures => calls # <<>> /\ calls[Len(calls)] = error
          /\ error \in {"notify_default", "notify_write"} => calls = <<>>
          /\ error = "unsupported_flag" => \A k \in DOMAIN calls : Phase(calls[k]) <= 2
          /\ error = "translate_action" =>
               \A k \in DOMAIN calls : Phase(calls[k]) \in {1, 2, 3, 4, 5}
          /\ error \notin {"load", "get_notify_fd"} => CallsOf(6) = {} /\ ~ctx.loaded)
  /\ [][result = "err" => calls' = calls /\ ctx' = ctx /\ result' = "err"]_vars

\* A rule addition fails after the filter was created and configured.
C13_Witness ==
  /\ result = "err"
  /\ error = "add_rule_conditional"
  /\ Len(calls) >= 5
  /\ Len(ctx.rules) = 1
  /\ ~ctx.loaded

\* The numeric parameter in effect: an absent one is EPERM.
Effective(u) == IF u.some THEN <<u.hi, u.lo>> ELSE <<0, EPERM>>

\* The rules C14 says are elided, in the policy's own terms.
StatedElided(p, i) ==
  /\ p.syscalls[i].action = p.default_action
  /\ p.syscalls[i].action \in {"ScmpActErrno", "ScmpActTrace"} =>
       Effective(p.syscalls[i].errno_ret) = Effective(p.default_errno_ret)

\* The step of the rule loop that skips the current rule.
ElidingStep == pc' = "rules" /\ ri' = ri + 1 /\ calls' = calls /\ ctx' = ctx

\* C14: the rule loop skips a rule exactly when its action is the default's
\* action and, for errno and trace, the effective parameters (absent = EPERM)
\* are equal; for the other actions the parameters do not matter.
C14_ElidedIffSameNativeAction ==
  [][pc = "rules" /\ ri <= Len(policy.syscalls) =>
       (ElidingStep <=> StatedElided(policy, ri))]_vars

\* An errno rule with parameter EPERM was skipped under a default errno with
\* no parameter.
C14_Witness ==
  /\ pc = "rules"
  /\ ri = 2
  /\ policy.default_action = "ScmpActErrno"
  /\ policy.default_errno_ret = NoneU32
  /\ policy.syscalls[1].action = "ScmpActErrno"
  /\ policy.syscalls[1].errno_ret = SomeU32(0, EPERM)
  /\ policy.syscalls[1].names = <<"write">>
  /\ ctx.rules = <<>>

\* The parameter, converted to signed 32 bits, fits the native trace value
\* (u16); an absent one stands for EPERM.
TraceRepresentable(u) == ~u.some \/ u.hi = 0

\* translate_action where the parameter is ignored or absent, and where it
\* fails.
C15_IgnoredAbsentAndFailure ==
  pc = "action_translated" =>
    /\ tin[1] \notin {"ScmpActErrno", "ScmpActTrace"} => tout[1].ok /\ tout[1] = tout[2]
    /\ tin[1] = "ScmpActErrno" /\ ~tin[2].some => tout[1].ok /\ tout[1].v = <<"Errno", EPERM>>
    /\ ~tout[1].ok <=> (tin[1] = "ScmpActTrace" /\ ~TraceRepresentable(tin[2]))

\* C15: translate_action ignores the parameter for every action other than
\* errno and trace, yields Errno(EPERM) for errno without parameter, fails
\* only for trace with a parameter that does not fit the native trace value,
\* and for errno with a present parameter e yields the error number e.
C15_TranslateAction ==
  /\ C15_IgnoredAbsentAndFailure
  /\ pc = "action_translated" /\ tin[1] = "ScmpActErrno" /\ tin[2].some =>
       tout[1].ok /\ tout[1].v[1] = "Errno" /\ IsErrno(tout[1].v[2], tin[2])

\* The token stands in the flag list before position k.
FlagBefore(token, k) == \E j \in 1..(k - 1) : policy.flags[j] = token

\* C16 as stated: when initialize_seccomp fails on an unrecognized flag token
\* no control flag has been set on the filter object, wherever the token
\* stands in the list.
C16_NoFlagSetBeforeFailure ==
  error = "unsupported_flag" =>
    /\ ~ctx.log /\ ~ctx.tsync /\ ~ctx.ssb
    /\ calls = <<"new_filter">>

\* C16: when initialize_seccomp fails on an unrecognized flag token, the
\* control flags set on the filter object are exactly those of the recognized
\* tokens that precede the first unrecognized one; no architecture and no
\* rule has been added, automatic no-new-privileges is untouched and the
\* filter is not loaded.
C16_OnlyPrecedingFlagsSet ==
  error = "unsupported_flag" =>
    /\ fi \in UnknownFlags(policy)
    /\ \A j \in 1..(fi - 1) : j \notin UnknownFlags(policy)
    /\ ctx.log <=> FlagBefore("SECCOMP_FILTER_FLAG_LOG", fi)
    /\ ctx.tsync <=> FlagBefore("SECCOMP_FILTER_FLAG_TSYNC", fi)
    /\ ctx.ssb <=> FlagBefore("SECCOMP_FILTER_FLAG_SPEC_ALLOW", fi)
    /\ Len(calls) = fi
    /\ \A k \in DOMAIN calls : Phase(calls[k]) <= 2
    /\ ctx.archs = <<>> /\ ctx.rules = <<>> /\ ctx.nnp /\ ~ctx.loaded

\* The logging flag was set, then the next token was not recognized.
C16_Witness ==
  /\ error = "unsupported_flag"
  /\ policy.flags = <<"SECCOMP_FILTER_FLAG_LOG", "SECCOMP_FILTER_FLAG_BOGUS">>
  /\ ctx.log
  /\ calls = <<"new_filter", "set_ctl_log">>

\* libseccomp::ScmpCompareOp variants, and the comparator each policy
\* operator names.
ScmpCompareOpTags ==
  { "NotEqual", "Less", "LessOrEqual", "Equal", "GreaterEqual", "Greater", "MaskedEqual" }
NamedComparator(op) ==
  CASE op = "ScmpCmpNe" -> "NotEqual"
    [] op = "ScmpCmpLt" -> "Less"
    [] op = "ScmpCmpLe" -> "LessOrEqual"
    [] op = "ScmpCmpEq" -> "Equal"
    [] op = "ScmpCmpGe" -> "GreaterEqual"
    [] op = "ScmpCmpGt" -> "Greater"
    [] op = "ScmpCmpMaskedEq" -> "MaskedEqual"

\* C17: translate_op maps the six plain operators one-to-one to their native
\* comparators whatever the secondary operand is, and masked-equal to the
\* native masked comparator with the secondary operand as mask, 0 when it is
\* absent; it yields a comparator for every input.
C17_TranslateOp ==
  pc = "op_translated" =>
    /\ \A k \in {1, 2} :
         /\ tout[k][1] \in ScmpCompareOpTags
         /\ tout[k][1] = NamedComparator(tin[k][1])
         /\ tin[k][1] # "ScmpCmpMaskedEq" => tout[k][2] = 0
         /\ tin[k][1] = "ScmpCmpMaskedEq" =>
              tout[k][2] = (IF tin[k][2].some THEN tin[k][2].v ELSE 0)
    /\ tin[1][1] = tin[2][1] /\ tin[1][1] # "ScmpCmpMaskedEq" => tout[1] = tout[2]
    /\ tout[1][1] = tout[2][1] => tin[1][1] = tin[2][1]

\* Masked-equal with mask 3 and with no mask, translated.
C17_Witness ==
  /\ pc = "op_translated"
  /\ tin = << <<"ScmpCmpMaskedEq", SomeU64(3)>>, <<"ScmpCmpMaskedEq", NoneU64>> >>
  /\ tout = << <<"MaskedEqual", 3>>, <<"MaskedEqual", 0>> >>

\* The native rules of the filter that carry the notify action.
NativeNotifyRules == { k \in DOMAIN ctx.rules : ctx.rules[k].action[1] = "Notify" }

\* C18: whenever the notification handle is requested from the engine, the
\* loaded filter holds at least one native rule with the notify action, also
\* when names of the notify rule fail to resolve or its condition list is
\* empty.
C18_HandleRequestedOnlyWithNotifyRule ==
  (\E k \in DOMAIN calls : calls[k] = "get_notify_fd") =>
    ctx.loaded /\ NativeNotifyRules # {}

\* C19: in every state of the compilation the native filter holds no rule
\* with the notify action for the syscall write, its default action is not
\* notify, and no rule of it has the filter's default action.
C19_FilterInvariants ==
  /\ \A k \in DOMAIN ctx.rules :
       /\ ~(ctx.rules[k].action[1] = "Notify" /\ ctx.rules[k].sc = "write")
       /\ ctx.rules[k].action # ctx.default
  /\ ctx.created => ctx.default[1] # "Notify" /\ ctx.default = default_action
  /\ ~ctx.created => ctx.rules = <<>>

\* A loaded filter with a notify rule for getcwd and another rule for write.
C19_Witness ==
  /\ ctx.loaded
  /\ NativeNotifyRules # {}
  /\ \E k \in DOMAIN ctx.rules :
       ctx.rules[k].sc = "write" /\ ctx.rules[k].action[1] # "Notify"

====
